---- MODULE Spec2Model ----
(***************************************************************************)
(* Model of the inbound message demultiplexer of steam-session:            *)
(* src/transports/websocket/message_filter.rs.                             *)
(*                                                                         *)
(* The peer puts frames on the wire, the read loop spawned by                *)
(* MessageFilter::new takes them off one at a time and runs               *)
(* handle_ws_message on each, callers register sinks with on_job_id and    *)
(* may drop their receivers.  Frames are sequences of bytes; parsing is    *)
(* done on the bytes, as the code does it.                                 *)
(***************************************************************************)
EXTENDS Integers, Sequences, FiniteSets, TLC

\* Number of on_job_id registrations made during one run.
MaxSinks == 2

----------------------------------------------------------------------------
(* Results: Rust's Result<T, Error>.                                       *)

Ok(v) == [ok |-> TRUE, val |-> v]

Err(kind, n) == [ok |-> FALSE, err |-> [kind |-> kind, val |-> n]]

\* Rust's Option<T>, and the unit value.
None == [some |-> FALSE]

Some(v) == [some |-> TRUE, v |-> v]

Unit == "()"

----------------------------------------------------------------------------
(* Bytes on the wire.  A u32 is kept as its top bit and its low 31 bits,   *)
(* so that the flag bit 0x80000000 is representable.                       *)

U32(msb, low) == [msb |-> msb, low |-> low]

PROTO_MASK == U32(1, 0)

\* raw & PROTO_MASK
AndMask(raw, mask) ==
    U32(raw.msb * mask.msb, IF mask.low = 0 THEN 0 ELSE raw.low)

\* raw & !PROTO_MASK
AndNotMask(raw, mask) ==
    U32(raw.msb * (1 - mask.msb), IF mask.low = 0 THEN raw.low ELSE 0)

RECURSIVE LEBytes(_, _)
LEBytes(n, k) ==
    IF k = 0 THEN << >> ELSE <<n % 256>> \o LEBytes(n \div 256, k - 1)

RECURSIVE LEValue(_)
LEValue(bytes) ==
    IF bytes = << >> THEN 0 ELSE Head(bytes) + 256 * LEValue(Tail(bytes))

\* The bytes of buf after the first pos bytes.
Rest(buf, pos) == SubSeq(buf, pos + 1, Len(buf))

\* Cursor::read_u32::<LittleEndian>: the value and the new position, or an
\* I/O error when fewer than four bytes remain.
ReadU32(buf, pos) ==
    IF pos + 4 > Len(buf)
    THEN Err("Io", 0)
    ELSE Ok([v |-> U32(buf[pos + 4] \div 128,
                       buf[pos + 1] + 256 * buf[pos + 2] + 65536 * buf[pos + 3]
                           + 16777216 * (buf[pos + 4] % 128)),
             pos |-> pos + 4])

\* Cursor::read_exact into a buffer of n.low bytes (n a u32): the bytes and
\* the new position, or an I/O error when fewer bytes remain.
ReadExact(buf, pos, n) ==
    IF n.msb = 1 \/ pos + n.low > Len(buf)
    THEN Err("Io", 0)
    ELSE Ok([v |-> SubSeq(buf, pos + 1, pos + n.low), pos |-> pos + n.low])

----------------------------------------------------------------------------
(* Protocol buffers: the wire format read by parse_from_bytes.             *)

RECURSIVE ReadVarint(_, _)
ReadVarint(buf, pos) ==
    IF pos >= Len(buf)
    THEN Err("Protobuf", 0)
    ELSE LET b == buf[pos + 1] IN
         IF b < 128
         THEN Ok([v |-> b, pos |-> pos + 1])
         ELSE LET r == ReadVarint(buf, pos + 1) IN
              IF r.ok
              THEN Ok([v |-> (b - 128) + 128 * r.val.v, pos |-> r.val.pos])
              ELSE r

\* The fields of a message, field number -> last value seen; unknown field
\* numbers are kept too (the accessors ignore them).
RECURSIVE ParseFields(_, _, _)
ParseFields(buf, pos, acc) ==
    IF pos >= Len(buf)
    THEN Ok(acc)
    ELSE LET tag == ReadVarint(buf, pos) IN
         IF ~tag.ok THEN tag
         ELSE LET num  == tag.val.v \div 8
                  wire == tag.val.v % 8
                  p    == tag.val.pos
              IN  IF num = 0 THEN Err("Protobuf", 0)
                  ELSE CASE wire = 0 ->
                              LET r == ReadVarint(buf, p) IN
                              IF ~r.ok THEN r
                              ELSE ParseFields(buf, r.val.pos,
                                               (num :> r.val.v) @@ acc)
                         [] wire = 1 ->
                              IF p + 8 > Len(buf) THEN Err("Protobuf", 0)
                              ELSE ParseFields(buf, p + 8,
                                     (num :> LEValue(SubSeq(buf, p + 1, p + 8)))
                                         @@ acc)
                         [] wire = 2 ->
                              LET r == ReadVarint(buf, p) IN
                              IF ~r.ok THEN r
                              ELSE IF r.val.pos + r.val.v > Len(buf)
                                   THEN Err("Protobuf", 0)
                                   ELSE ParseFields(buf, r.val.pos + r.val.v,
                                          (num :> SubSeq(buf, r.val.pos + 1,
                                                         r.val.pos + r.val.v))
                                              @@ acc)
                         [] wire = 5 ->
                              IF p + 4 > Len(buf) THEN Err("Protobuf", 0)
                              ELSE ParseFields(buf, p + 4,
                                     (num :> LEValue(SubSeq(buf, p + 1, p + 4)))
                                         @@ acc)
                         [] OTHER -> Err("Protobuf", 0)

Field(fields, num, default) ==
    IF num \in DOMAIN fields THEN fields[num] ELSE default

EmptyFields == [n \in {} |-> 0]

\* EResult::Fail, the default of the eresult fields.
EResultDefault == 2

\* The accessors of CMsgProtoBufHeader used by parse_message, on the parsed
\* fields r.
HeaderAccessors(r) ==
    IF ~r.ok THEN r
    ELSE Ok([client_sessionid |-> Field(r.val, 2, 0),
             jobid_target     |-> Field(r.val, 11, 0),
             eresult          |-> Field(r.val, 13, EResultDefault)])

\* CMsgProtoBufHeader::parse_from_bytes
ParseHeader(buf) == HeaderAccessors(ParseFields(buf, 0, EmptyFields))

\* The accessors of CMsgMulti: size_unzipped and message_body.
MultiAccessors(r) ==
    IF ~r.ok THEN r
    ELSE Ok([size_unzipped |-> Field(r.val, 1, 0),
             message_body  |-> Field(r.val, 2, << >>)])

\* CMsgMulti::parse_from_bytes
ParseMulti(buf) == MultiAccessors(ParseFields(buf, 0, EmptyFields))

\* The accessor of CMsgClientLogonResponse: eresult.
LogonResponseAccessors(r) ==
    IF ~r.ok THEN r
    ELSE Ok([eresult |-> Field(r.val, 1, EResultDefault)])

\* CMsgClientLogonResponse::parse_from_bytes
ParseLogonResponse(buf) ==
    LogonResponseAccessors(ParseFields(buf, 0, EmptyFields))

----------------------------------------------------------------------------
(* gzip, as far as the filter depends on it: the header (magic and         *)
(* method), the data, and the trailer's ISIZE (length of the data modulo   *)
(* 256 here); decoding fails on a wrong header or trailer.                 *)

GzHeader == <<31, 139, 8>>

GzTrailer(data) == <<Len(data) % 256>>

\* GzDecoder::new(payload).read_to_end
GzDecode(payload) ==
    IF Len(payload) < 4 \/ SubSeq(payload, 1, 3) # GzHeader
    THEN Err("Io", 0)
    ELSE LET data == SubSeq(payload, 4, Len(payload) - 1) IN
         IF <<payload[Len(payload)]>> = GzTrailer(data)
         THEN Ok(data)
         ELSE Err("Io", 0)

----------------------------------------------------------------------------
(* The enumerations: EMsg::try_from and EResult::try_from succeed on the   *)
(* listed numbers.                                                         *)

EMsg_Multi == 1

EMsg_ServiceMethodResponse == 147

EMsg_ClientLogOnResponse == 751

KnownEMsg == {EMsg_Multi, EMsg_ServiceMethodResponse, EMsg_ClientLogOnResponse}

EResult_OK == 1

EResult_Fail == 2

EResult_InvalidPassword == 5

KnownEResult == {EResult_OK, EResult_Fail, EResult_InvalidPassword}

----------------------------------------------------------------------------
(* The filter.  A filter state st is the part of the program the handlers  *)
(* act on: filters (job_id_filters, a map job id -> index of the sink in   *)
(* sinks), sinks (the oneshot channels created by on_job_id), sid          *)
(* (client_sessionid) and log, the "Handle ..." debug lines of the current *)
(* loop iteration, each with the sender the frame removed from the map.    *)

\* One oneshot channel: the job id it was registered under, the state of
\* the receiver held by the caller, the value in the channel and the number
\* of times Sender::send was called on it.
NewSink(id) == [job |-> id, rx |-> "waiting", value |-> None, sends |-> 0]

\* oneshot::Sender::send: the value reaches the channel unless the receiver
\* was dropped, in which case send returns the value as an error.
OneshotSend(sinks, tx, message) ==
    [sinks EXCEPT ![tx] =
        [@ EXCEPT !.sends = @ + 1,
                  !.value = IF sinks[tx].rx = "waiting"
                            THEN Some(message) ELSE @]]

\* The Result of oneshot::Sender::send: an error when the receiver was
\* dropped.
SendResult(sinks, tx) ==
    IF sinks[tx].rx = "waiting" THEN Ok(Unit) ELSE Err("SendError", tx)

\* A send whose error is returned in place of the result.
IgnoreSend_Propagate(sent, result) == IF sent.ok THEN result ELSE sent

\* let _ = tx.send(message): what send returned is discarded.
IgnoreSend(sent, result) == result

\* A remove that leaves the entry in the map.
MapRemove_Keep(map, key) == map

\* DashMap::remove
MapRemove(map, key) == [k \in DOMAIN map \ {key} |-> map[k]]

\* An insert that keeps the entry already in the map.
MapInsert_KeepFirst(map, key, v) ==
    IF key \in DOMAIN map THEN map ELSE (key :> v) @@ map

\* DashMap::insert
MapInsert(map, key, v) == (key :> v) @@ map

\* The error carries the masked value instead of the raw one.
NonProtobufError_Masked(raw_emsg) ==
    Err("UnexpectedNonProtobufMessage", AndMask(raw_emsg, PROTO_MASK).low)

\* Error::UnexpectedNonProtobufMessage(raw_emsg), raw_emsg without the flag.
NonProtobufError(raw_emsg) ==
    Err("UnexpectedNonProtobufMessage", raw_emsg.low)

\* A conversion that takes every number.
TryFromEResult_Unchecked(n) == Ok(n)

\* EResult::try_from(n).map_err(|_| Error::UnknownEResult(n))
TryFromEResult(n) ==
    IF n \in KnownEResult THEN Ok(n) ELSE Err("UnknownEResult", n)

\* A conversion that takes every message type.
TryFromEMsg_Unchecked(n) == Ok(n)

\* EMsg::try_from(n).map_err(|_| Error::UnknownEMsg(n))
TryFromEMsg(n) ==
    IF n \in KnownEMsg THEN Ok(n) ELSE Err("UnknownEMsg", n)

\* The end of parse_message: the two conversions, in the order of the
\* code, and the MessageData returned; header is the parsed header.
ConvertMessage(header, emsg, eresult, body) ==
    IF ~emsg.ok THEN emsg ELSE
    IF ~eresult.ok THEN eresult
    ELSE Ok([eresult          |-> eresult.val,
             emsg             |-> emsg.val,
             jobid_target     |-> header.jobid_target,
             client_sessionid |-> header.client_sessionid,
             body             |-> body])

\* parse_message once header and body are read: the test of the flag, then
\* the header (header is the result of parsing header_buffer) and the
\* conversions.
DecodeMessage(raw_emsg, header, body) ==
    IF AndMask(raw_emsg, PROTO_MASK) = U32(0, 0)
    THEN NonProtobufError(raw_emsg) ELSE
    IF ~header.ok THEN header
    ELSE ConvertMessage(header.val,
                        TryFromEMsg(AndNotMask(raw_emsg, PROTO_MASK).low),
                        TryFromEResult(header.val.eresult),
                        body)

parse_message(msg) ==
    LET r1 == ReadU32(msg, 0) IN
    IF ~r1.ok THEN r1 ELSE
    LET r2 == ReadU32(msg, r1.val.pos) IN
    IF ~r2.ok THEN r2 ELSE
    LET r3 == ReadExact(msg, r2.val.pos, r2.val.v) IN
    IF ~r3.ok THEN r3
    ELSE DecodeMessage(r1.val.v, ParseHeader(r3.val.v), Rest(msg, r3.val.pos))

\* A reply that is a success whatever the result code.
ReplyMessage_AlwaysOk(eresult, body) ==
    Ok([eresult |-> Some(eresult), error_message |-> None,
        body |-> Some(body)])

\* The value sent to the sink of a correlated reply.
ReplyMessage(eresult, body) ==
    IF eresult = EResult_OK
    THEN Ok([eresult |-> Some(eresult), error_message |-> None,
             body |-> Some(body)])
    ELSE Err("EResultNotOK", eresult)

\* A store that takes every session id, zero included.
StoreSessionId_Always(current, client_sessionid) == client_sessionid

\* The session id stored after a frame carrying client_sessionid.
StoreSessionId(current, client_sessionid) ==
    IF client_sessionid # 0 /\ client_sessionid # current
    THEN client_sessionid
    ELSE current

\* A lookup made for job id 0 too.
Correlates_AnyId(filters, jobid_target) == jobid_target \in DOMAIN filters

\* Whether a decoded frame is looked up in job_id_filters.
Correlates(filters, jobid_target) ==
    jobid_target # 0 /\ jobid_target \in DOMAIN filters

\* A frame that is taken as consumed whether or not it met an entry.
CheckResult_Consumed(found, emsg, body) == Ok(None)

\* A reply that is returned to the dispatch like any other frame.
CheckResult_FallThrough(found, emsg, body) ==
    Ok(Some([emsg |-> emsg, body |-> body]))

\* The value check_ws_message returns for a decoded frame: Ok(None) for a
\* correlated reply, Ok(Some((emsg, body))) for any other frame.
CheckResult(found, emsg, body) ==
    IF found THEN Ok(None) ELSE Ok(Some([emsg |-> emsg, body |-> body]))

\* check_ws_message after parse_message(msg)?, whose result is p.  The
\* result is that of CheckResult, or the error of parse_message.
Correlate(st, p) ==
    IF ~p.ok THEN [st |-> st, res |-> p] ELSE
    LET m     == p.val
        sid1  == StoreSessionId(st.sid, m.client_sessionid)
        found == Correlates(st.filters, m.jobid_target)
        tx    == IF found THEN st.filters[m.jobid_target] ELSE 0
        entry == [emsg             |-> m.emsg,
                  jobid_target     |-> m.jobid_target,
                  client_sessionid |-> m.client_sessionid,
                  eresult          |-> m.eresult,
                  tx               |-> tx]
        log1  == Append(st.log, entry)
    IN
    IF found
    THEN [st  |-> [filters |-> MapRemove(st.filters, m.jobid_target),
                   sinks   |-> OneshotSend(st.sinks, tx,
                                           ReplyMessage(m.eresult, m.body)),
                   sid     |-> sid1,
                   log     |-> log1],
          res |-> IgnoreSend(SendResult(st.sinks, tx),
                             CheckResult(found, m.emsg, m.body))]
    ELSE [st  |-> [st EXCEPT !.sid = sid1, !.log = log1],
          res |-> CheckResult(found, m.emsg, m.body)]

check_ws_message(st, msg) == Correlate(st, parse_message(msg))

\* A loop that goes on to the next chunk when one fails to decode.
RECURSIVE MultiChunks_SkipBad(_, _, _)
MultiChunks_SkipBad(st, payload, pos) ==
    LET r == ReadU32(payload, pos) IN
    IF ~r.ok THEN [st |-> st, res |-> Ok(Unit)] ELSE
    LET chunk_size == r.val.v
        chunk == ReadExact(payload, r.val.pos, chunk_size)
    IN
    IF ~chunk.ok THEN [st |-> st, res |-> chunk]
    ELSE MultiChunks_SkipBad(check_ws_message(st, chunk.val.v).st, payload,
                             chunk.val.pos)

RECURSIVE MultiChunks(_, _, _)
\* check_ws_message(filter, chunk_buffer)?, whose outcome is c: its error
\* ends the loop, otherwise the loop goes on with the cursor at pos.
NextChunk(c, payload, pos) ==
    IF ~c.res.ok THEN [st |-> c.st, res |-> c.res]
    ELSE MultiChunks(c.st, payload, pos)

\* The while loop of process_multi_message, the cursor at pos.
MultiChunks(st, payload, pos) ==
    LET r == ReadU32(payload, pos) IN
    IF ~r.ok THEN [st |-> st, res |-> Ok(Unit)] ELSE
    LET chunk_size == r.val.v
        chunk == ReadExact(payload, r.val.pos, chunk_size)
    IN
    IF ~chunk.ok THEN [st |-> st, res |-> chunk]
    ELSE NextChunk(check_ws_message(st, chunk.val.v), payload, chunk.val.pos)

\* The payload of a parsed CMsgMulti: unzipped when size_unzipped is not 0.
MultiPayload(message) ==
    IF message.size_unzipped # 0
    THEN GzDecode(message.message_body)
    ELSE Ok(message.message_body)

\* The cursor over the payload and its loop; payload is the result of
\* MultiPayload.
ReadChunks(st, payload) ==
    IF ~payload.ok THEN [st |-> st, res |-> payload]
    ELSE MultiChunks(st, payload.val, 0)

\* process_multi_message after CMsgMulti::parse_from_bytes(body_buffer)?,
\* whose result is message.
ExpandMulti(st, message) ==
    IF ~message.ok THEN [st |-> st, res |-> message]
    ELSE ReadChunks(st, MultiPayload(message.val))

process_multi_message(st, body_buffer) ==
    ExpandMulti(st, ParseMulti(body_buffer))

\* The arm EMsg::ClientLogOnResponse after parse_from_bytes(&body), whose
\* result is logon_response: always an error.
LogonResponseArm(logon_response) ==
    IF ~logon_response.ok THEN logon_response ELSE
    LET eresult == TryFromEResult(logon_response.val.eresult) IN
    IF ~eresult.ok THEN eresult
    ELSE Err("ClientLogOnResponseTryAnotherCM", eresult.val)

\* The outcome r of a handler, with the arm taken.
WithArm(r, arm) == [st |-> r.st, res |-> r.res, arm |-> arm]

\* handle_ws_message after check_ws_message(filter, msg)?, whose outcome
\* is c.  arm is the branch taken on the frame: "error" (check_ws_message
\* failed), "reply" (correlated, nothing more is done), or the arm of the
\* match.
Dispatch(c) ==
    IF ~c.res.ok THEN WithArm(c, "error") ELSE
    IF ~c.res.val.some
    THEN [st |-> c.st, res |-> Ok(Unit), arm |-> "reply"] ELSE
    LET emsg == c.res.val.v.emsg
        body == c.res.val.v.body
    IN
    CASE emsg = EMsg_ClientLogOnResponse ->
            [st  |-> c.st,
             res |-> LogonResponseArm(ParseLogonResponse(body)),
             arm |-> "ClientLogOnResponse"]
      [] emsg = EMsg_Multi ->
            WithArm(process_multi_message(c.st, body), "Multi")
      [] OTHER ->
            [st |-> c.st, res |-> Ok(Unit), arm |-> "unexpected"]

handle_ws_message(st, msg) == Dispatch(check_ws_message(st, msg))

----------------------------------------------------------------------------
(* The peer: what it puts on the wire.  A frame description d gives the    *)
(* fields the peer encodes and the way the frame is damaged, if it is.     *)

RECURSIVE EncodeVarint(_)
EncodeVarint(n) ==
    IF n < 128 THEN <<n>> ELSE <<128 + (n % 128)>> \o EncodeVarint(n \div 128)

EncodeU32(u) == LEBytes(u.low, 3) \o <<(u.low \div 16777216) + 128 * u.msb>>

\* CMsgProtoBufHeader: client_sessionid = 2, jobid_target = 11 (fixed64),
\* eresult = 13.
EncodeHeader(sid, job, eresult) ==
    <<16>> \o EncodeVarint(sid) \o <<89>> \o LEBytes(job, 8)
        \o <<104>> \o EncodeVarint(eresult)

\* A header that is not a protocol buffer (wire type 7).
JunkBytes == <<15>>

GzEncode(data) == GzHeader \o data \o GzTrailer(data)

GzCorrupt(data) == GzHeader \o data \o <<(Len(data) + 1) % 256>>

\* CMsgMulti: size_unzipped = 1, message_body = 2.
EncodeMultiBody(payload, zip) ==
    LET message_body == CASE zip = "gzip"    -> GzEncode(payload)
                          [] zip = "corrupt" -> GzCorrupt(payload)
                          [] OTHER           -> payload
        size_unzipped == IF zip = "none" THEN 0 ELSE Len(payload)
    IN  <<8>> \o EncodeVarint(size_unzipped)
            \o <<18>> \o EncodeVarint(Len(message_body)) \o message_body

NoMulti == [on |-> FALSE, subs |-> << >>, zip |-> "none", trail |-> << >>]

RECURSIVE EncodeFrame(_)
RECURSIVE EncodeChunks(_)
RECURSIVE EncodeBody(_)
\* The sub-frames of a container, each after its length.
EncodeChunks(subs) ==
    IF subs = << >> THEN << >>
    ELSE LET chunk == EncodeFrame(Head(subs)) IN
         EncodeU32(U32(0, Len(chunk))) \o chunk \o EncodeChunks(Tail(subs))

\* The body of a frame: of a container, the CMsgMulti of its sub-frames
\* and trailing bytes.
EncodeBody(d) ==
    IF d.multi.on
    THEN EncodeMultiBody(EncodeChunks(d.multi.subs) \o d.multi.trail,
                         d.multi.zip)
    ELSE d.body

EncodeFrame(d) ==
    LET header == IF d.junk THEN JunkBytes
                  ELSE EncodeHeader(d.sid, d.job, d.eresult)
        body   == EncodeBody(d)
        frame  == EncodeU32(U32(IF d.flag THEN 1 ELSE 0, d.emsg))
                      \o EncodeU32(U32(0, Len(header))) \o header \o body
    IN  IF d.cut < 0 THEN frame ELSE SubSeq(frame, 1, d.cut)

\* A well-formed frame.
Plain(emsg, sid, job, eresult, body) ==
    [emsg |-> emsg, flag |-> TRUE, sid |-> sid, job |-> job,
     eresult |-> eresult, junk |-> FALSE, body |-> body, cut |-> -1,
     multi |-> NoMulti]

\* A well-formed container.
Multi(sid, job, subs, zip, trail) ==
    [Plain(EMsg_Multi, sid, job, EResult_OK, << >>) EXCEPT
        !.multi = [on |-> TRUE, subs |-> subs, zip |-> zip, trail |-> trail]]

\* CMsgClientLogonResponse: eresult = 1.
LogonBody(eresult) == <<8>> \o EncodeVarint(eresult)

UnknownEMsg == 9999

UnknownEResult == 127

JobA == 42

JobB == 7

Body1 == <<1, 2, 3>>

Body2 == <<9>>

ReplyA_Ok == Plain(EMsg_ServiceMethodResponse, 0, JobA, EResult_OK, Body1)

ReplyA_Fail == Plain(EMsg_ServiceMethodResponse, 5, JobA, EResult_Fail, Body1)

ReplyB_Ok == Plain(EMsg_ServiceMethodResponse, 0, JobB, EResult_OK, Body2)

ReplyB_Bad ==
    Plain(EMsg_ServiceMethodResponse, 7, JobB, EResult_InvalidPassword, Body2)

Push == Plain(EMsg_ServiceMethodResponse, 0, 0, EResult_OK, Body1)

Logon_Ok == Plain(EMsg_ClientLogOnResponse, 0, 0, EResult_OK,
                  LogonBody(EResult_OK))

Logon_Fail == Plain(EMsg_ClientLogOnResponse, 5, 0, EResult_OK,
                    LogonBody(EResult_Fail))

Logon_Unknown == Plain(EMsg_ClientLogOnResponse, 0, 0, EResult_OK,
                       LogonBody(UnknownEResult))

LogonA == Plain(EMsg_ClientLogOnResponse, 0, JobA, EResult_Fail,
                LogonBody(EResult_InvalidPassword))

\* The frame the damaged frames are made from: it carries job id JobA and
\* session id 7.
Damaged == Plain(EMsg_ServiceMethodResponse, 7, JobA, EResult_OK, Body1)

WellFormedNames ==
    {"ReplyA_Ok", "ReplyA_Fail", "ReplyB_Ok", "ReplyB_Bad", "Push",
     "Logon_Ok", "Logon_Fail", "Logon_Unknown", "LogonA"}

MalformedNames ==
    {"Cut3", "Cut6", "Cut10", "NoFlag", "NoFlagJunk", "NoFlagUnknown",
     "UnknownEMsg", "UnknownEResult", "JunkHeader"}

MultiNames ==
    {"Multi_AB", "Multi_Sids", "Multi_BadSub", "Multi_LongPrefix",
     "Multi_ShortTail", "MultiA", "Multi_Nested", "Multi_BadGzip",
     "Multi_Junk", "Multi_BadFirst"}

\* The frames the peer sends, by name.
FrameNames == WellFormedNames \cup MalformedNames \cup MultiNames

Frame(name) ==
    CASE name = "ReplyA_Ok"   -> ReplyA_Ok
      [] name = "ReplyA_Fail" -> ReplyA_Fail
      [] name = "ReplyB_Ok"   -> ReplyB_Ok
      [] name = "ReplyB_Bad"  -> ReplyB_Bad
      [] name = "Push"        -> Push
      [] name = "Logon_Ok"    -> Logon_Ok
      [] name = "Logon_Fail"  -> Logon_Fail
      [] name = "Logon_Unknown" -> Logon_Unknown
      [] name = "LogonA"      -> LogonA
      [] name = "Cut3"        -> [Damaged EXCEPT !.cut = 3]
      [] name = "Cut6"        -> [Damaged EXCEPT !.cut = 6]
      [] name = "Cut10"       -> [Damaged EXCEPT !.cut = 10]
      [] name = "NoFlag"      -> [Damaged EXCEPT !.flag = FALSE]
      [] name = "NoFlagJunk"  ->
            [Damaged EXCEPT !.flag = FALSE, !.junk = TRUE,
                            !.emsg = UnknownEMsg]
      [] name = "NoFlagUnknown" ->
            [Damaged EXCEPT !.flag = FALSE, !.eresult = UnknownEResult,
                            !.emsg = EMsg_Multi]
      [] name = "UnknownEMsg" -> [Damaged EXCEPT !.emsg = UnknownEMsg]
      [] name = "UnknownEResult" ->
            [Damaged EXCEPT !.eresult = UnknownEResult]
      [] name = "JunkHeader"  -> [Damaged EXCEPT !.junk = TRUE]
      [] name = "Multi_AB"    ->
            Multi(0, 0, <<ReplyA_Ok, ReplyB_Bad>>, "none", << >>)
      [] name = "Multi_Sids"  ->
            Multi(0, 0, <<Push, ReplyA_Fail, Push, ReplyB_Bad>>, "gzip",
                  << >>)
      [] name = "Multi_BadSub" ->
            Multi(0, 0, <<ReplyA_Ok, [Damaged EXCEPT !.emsg = UnknownEMsg],
                          ReplyB_Ok>>, "none", << >>)
      [] name = "Multi_LongPrefix" ->
            Multi(0, 0, <<ReplyB_Ok>>, "none", <<200, 0, 0, 0, 1, 2>>)
      [] name = "Multi_ShortTail" ->
            Multi(0, 0, <<ReplyA_Ok>>, "none", <<1, 2>>)
      [] name = "MultiA"      ->
            Multi(5, JobA, <<ReplyB_Ok>>, "none", << >>)
      [] name = "Multi_Nested" ->
            Multi(0, 0, <<Multi(0, 0, <<ReplyA_Ok>>, "none", << >>),
                          Logon_Fail, Push>>, "none", << >>)
      [] name = "Multi_BadGzip" ->
            Multi(0, 0, <<ReplyA_Ok>>, "corrupt", << >>)
      [] name = "Multi_Junk"  ->
            Plain(EMsg_Multi, 0, 0, EResult_OK, JunkBytes)
      [] name = "Multi_BadFirst" ->
            Multi(0, 0, <<[Damaged EXCEPT !.eresult = UnknownEResult],
                          ReplyB_Ok>>, "none", << >>)

\* The job ids callers register.
JobIds == {0, JobA, JobB}

\* The values of the session id the filter is created with.
InitialSessionIds == {0, 5}

----------------------------------------------------------------------------
(* The program.                                                            *)

VARIABLES
    job_id_filters,    \* MessageFilter.job_id_filters: job id -> sink index
    sinks,             \* the oneshot channels created by on_job_id
    client_sessionid,  \* MessageFilter.client_sessionid
    rest_rx,           \* what the receiver returned by new has been sent
    loop,              \* the spawned task: "next" (at source.next().await),
                       \* "handle" (a binary message in hand), "log" (back
                       \* from handle_ws_message) or "stopped"
    item,              \* the name of the frame in hand, or "none"
    last               \* what the most recent step of the loop did and
                       \* the state it started from; Idle after any other
                       \* step

vars == <<job_id_filters, sinks, client_sessionid, rest_rx, loop, item, last>>

EmptyMap == [k \in {} |-> 0]

\* The table, the channels and the session id a step starts from.
Pre == [filters |-> job_id_filters, sinks |-> sinks,
        sid |-> client_sessionid]

Idle == [op |-> "idle"]

\* MessageFilter::new: the sender of the channel of rx is dropped on
\* return; nothing is ever sent to rx.
Init ==
    /\ job_id_filters = EmptyMap
    /\ sinks = << >>
    /\ client_sessionid \in InitialSessionIds
    /\ rest_rx = << >>
    /\ loop = "next"
    /\ item = "none"
    /\ last = Idle

\* A registration that is refused once the task has ended.
on_job_id_Refuses(id) ==
    /\ loop # "stopped"
    /\ Len(sinks) < MaxSinks
    /\ sinks' = Append(sinks, NewSink(id))
    /\ job_id_filters' = MapInsert(job_id_filters, id, Len(sinks) + 1)
    /\ last' = Idle
    /\ UNCHANGED <<client_sessionid, rest_rx, loop, item>>

on_job_id(id) ==
    /\ Len(sinks) < MaxSinks
    /\ sinks' = Append(sinks, NewSink(id))
    /\ job_id_filters' = MapInsert(job_id_filters, id, Len(sinks) + 1)
    /\ last' = Idle
    /\ UNCHANGED <<client_sessionid, rest_rx, loop, item>>

\* Whether the receiver of sink i is still waiting for a reply: its sender
\* is in the table.
Pending(i) ==
    /\ sinks[i].job \in DOMAIN job_id_filters
    /\ job_id_filters[sinks[i].job] = i

\* A drop that takes the sender out of the table.
DropReceiver_Unregisters(i) ==
    /\ Pending(i)
    /\ sinks[i].rx = "waiting"
    /\ sinks' = [sinks EXCEPT ![i].rx = "dropped"]
    /\ job_id_filters' = MapRemove(job_id_filters, sinks[i].job)
    /\ last' = Idle
    /\ UNCHANGED <<client_sessionid, rest_rx, loop, item>>

\* The caller drops a receiver that is still waiting.
DropReceiver(i) ==
    /\ Pending(i)
    /\ sinks[i].rx = "waiting"
    /\ sinks' = [sinks EXCEPT ![i].rx = "dropped"]
    /\ last' = Idle
    /\ UNCHANGED <<job_id_filters, client_sessionid, rest_rx, loop, item>>

\* A loop that takes the next message while one is still in hand.
ReceiveBinary_Overlapping(name) ==
    /\ loop \in {"next", "handle"}
    /\ loop' = "handle"
    /\ item' = name
    /\ last' = Idle
    /\ UNCHANGED <<job_id_filters, sinks, client_sessionid, rest_rx>>

\* source.next() yields a binary message, the named frame.
ReceiveBinary(name) ==
    /\ loop = "next"
    /\ loop' = "handle"
    /\ item' = name
    /\ last' = Idle
    /\ UNCHANGED <<job_id_filters, sinks, client_sessionid, rest_rx>>

\* The filter after handle_ws_message returned h.
Returned(h) ==
    /\ job_id_filters' = h.st.filters
    /\ sinks' = h.st.sinks
    /\ client_sessionid' = h.st.sid
    /\ last' = [op |-> "handle", frame |-> item, pre |-> Pre,
                res |-> h.res, arm |-> h.arm, log |-> h.st.log]

\* handle_ws_message on the message in hand.
Handle ==
    /\ loop = "handle"
    /\ Returned(handle_ws_message([filters |-> job_id_filters,
                                   sinks   |-> sinks,
                                   sid     |-> client_sessionid,
                                   log     |-> << >>],
                                  EncodeFrame(Frame(item))))
    /\ loop' = "log"
    /\ item' = "none"
    /\ UNCHANGED rest_rx

\* The error of handle_ws_message, if any, is logged and the loop goes on.
LogResult ==
    /\ loop = "log"
    /\ loop' = "next"
    /\ last' = Idle
    /\ UNCHANGED <<job_id_filters, sinks, client_sessionid, rest_rx, item>>

\* One iteration on a message that is not binary.
ReadNonBinary ==
    /\ loop = "next"
    /\ last' = [op |-> "non_binary", pre |-> Pre]
    /\ UNCHANGED <<job_id_filters, sinks, client_sessionid, rest_rx, loop,
                   item>>

\* An error item of the stream that ends the task.
ReadError_Stops ==
    /\ loop = "next"
    /\ loop' = "stopped"
    /\ last' = [op |-> "stream_error", pre |-> Pre]
    /\ UNCHANGED <<job_id_filters, sinks, client_sessionid, rest_rx, item>>

\* One iteration on an error item of the stream.
ReadError ==
    /\ loop = "next"
    /\ last' = [op |-> "stream_error", pre |-> Pre]
    /\ UNCHANGED <<job_id_filters, sinks, client_sessionid, rest_rx, loop,
                   item>>

\* source.next() returns None: the task ends.
StreamEnd ==
    /\ loop = "next"
    /\ loop' = "stopped"
    /\ last' = [op |-> "stream_end", pre |-> Pre]
    /\ UNCHANGED <<job_id_filters, sinks, client_sessionid, rest_rx, item>>

Next ==
    \/ \E id \in JobIds : on_job_id(id)
    \/ \E i \in DOMAIN sinks : DropReceiver(i)
    \/ \E name \in FrameNames : ReceiveBinary(name)
    \/ Handle
    \/ LogResult
    \/ ReadNonBinary
    \/ ReadError
    \/ StreamEnd

Spec == Init /\ [][Next]_vars

----------------------------------------------------------------------------
(* What the claims are stated with: the frame the peer sent, as it         *)
(* described it, against what the filter did with the bytes.               *)

\* The last step ran handle_ws_message.
Handled == last.op = "handle"

\* The description of the frame of the last step.
Sent == Frame(last.frame)

\* A frame that decodes: complete, flagged, with a protocol buffer header,
\* a known message type and a known result code.
WellFormed(d) ==
    /\ d.cut < 0
    /\ d.flag
    /\ ~d.junk
    /\ d.emsg \in KnownEMsg
    /\ d.eresult \in KnownEResult

\* The frame is a reply to a request registered in the table.
Awaited(d, filters) == d.job # 0 /\ d.job \in DOMAIN filters

\* The longest prefix of well-formed frames.
RECURSIVE GoodPrefix(_)
GoodPrefix(subs) ==
    IF subs = << >> \/ ~WellFormed(Head(subs)) THEN << >>
    ELSE <<Head(subs)>> \o GoodPrefix(Tail(subs))

\* The container is opened: it decodes, is not a reply, and its body
\* unpacks.
Expanded(d, filters) ==
    /\ WellFormed(d)
    /\ ~Awaited(d, filters)
    /\ d.emsg = EMsg_Multi
    /\ d.multi.on
    /\ d.multi.zip # "corrupt"

\* The frames decoded in a step on frame d from the table filters: d, then
\* the sub-frames of an opened container up to the first that fails.
Decoded(d, filters) ==
    IF ~WellFormed(d) THEN << >>
    ELSE IF Expanded(d, filters) THEN <<d>> \o GoodPrefix(d.multi.subs)
    ELSE <<d>>

\* The k-th decoded frame meets an entry of the table: it is awaited and no
\* earlier frame of the step carried its job id.
Meets(ds, k, filters) ==
    /\ Awaited(ds[k], filters)
    /\ \A i \in 1..(k - 1) : ds[i].job # ds[k].job

\* The value a reply frame resolves its receiver to.
Resolution(d) ==
    IF d.eresult = EResult_OK
    THEN Ok([eresult |-> Some(d.eresult), error_message |-> None,
             body |-> Some(EncodeBody(d))])
    ELSE Err("EResultNotOK", d.eresult)

\* The sinks the last step sent to.
SentTo == {last.log[k].tx : k \in DOMAIN last.log} \ {0}

\* C1: every decoded frame (top-level or sub-frame) with a non-zero job id
\* whose sink was registered before the frame was processed makes exactly
\* one delivery to that sink, and after the step the table holds no entry
\* for that job id.
C1_RegisteredSinkDeliveredOnce ==
    Handled =>
        LET ds == Decoded(Sent, last.pre.filters) IN
        /\ Len(last.log) = Len(ds)
        /\ \A k \in DOMAIN ds :
              Meets(ds, k, last.pre.filters) =>
                  LET tx == last.pre.filters[ds[k].job] IN
                  /\ last.log[k].tx = tx
                  /\ Cardinality({i \in DOMAIN last.log :
                                      last.log[i].tx = tx}) = 1
                  /\ sinks[tx].sends = last.pre.sinks[tx].sends + 1
                  /\ sinks[tx].sends = 1
                  /\ sinks[tx].rx = "waiting" => sinks[tx].value.some
                  /\ ds[k].job \notin DOMAIN job_id_filters

\* The scenario of C1: job id 42 registered, the frame with job id 42, OK
\* and body <<1, 2, 3>> handled, the receiver resolved.
C1_Witness ==
    /\ Handled
    /\ last.frame = "ReplyA_Ok"
    /\ JobA \in DOMAIN last.pre.filters
    /\ sinks[last.pre.filters[JobA]].value.some
    /\ JobA \notin DOMAIN job_id_filters

\* C2: the value delivered for a frame that meets an entry is Ok(body) when
\* the frame's result code is OK and Err(EResultNotOK(code)) otherwise; it
\* goes to the sink registered under the frame's job id and every sink the
\* step did not send to is as it was.
C2_ReplyValue ==
    Handled =>
        LET ds == Decoded(Sent, last.pre.filters) IN
        /\ \A k \in DOMAIN ds :
              Meets(ds, k, last.pre.filters) =>
                  LET tx == last.pre.filters[ds[k].job] IN
                  /\ sinks[tx].job = ds[k].job
                  /\ sinks[tx].rx = "waiting" =>
                         sinks[tx].value = Some(Resolution(ds[k]))
        /\ SentTo = {last.pre.filters[ds[k].job] :
                        k \in {i \in DOMAIN ds :
                                   Meets(ds, i, last.pre.filters)}}
        /\ \A i \in DOMAIN sinks : i \notin SentTo => sinks[i] = last.pre.sinks[i]

\* A reply with a result code other than OK reached its receiver as an
\* error while another sink was registered under another job id.
C2_Witness ==
    /\ Handled
    /\ last.frame = "ReplyA_Fail"
    /\ JobA \in DOMAIN last.pre.filters
    /\ JobB \in DOMAIN job_id_filters
    /\ sinks[last.pre.filters[JobA]].value = Some(Err("EResultNotOK", EResult_Fail))

\* C3: a top-level frame that met an entry of the table ends there: it
\* takes no arm of the dispatch (no logon-response check, no expansion of a
\* container: no sub-frame is decoded) and nothing reaches the unsolicited
\* receiver.
C3_ReplyNotDispatched ==
    (Handled /\ WellFormed(Sent) /\ Awaited(Sent, last.pre.filters)) =>
        /\ last.arm = "reply"
        /\ last.res.ok
        /\ Len(last.log) = 1
        /\ rest_rx = << >>

\* A logon response or a container that met an entry.
C3_Witness ==
    /\ Handled
    /\ last.frame \in {"LogonA", "MultiA"}
    /\ Awaited(Sent, last.pre.filters)
    /\ last.arm = "reply"

\* C4: a decoded top-level frame with a non-zero job id that meets no
\* entry and is neither a logon response nor a container is delivered, with
\* its message type and body, on the receiver returned by new.
C4_UnmatchedFrameForwarded ==
    (/\ Handled
     /\ WellFormed(Sent)
     /\ Sent.job # 0
     /\ Sent.job \notin DOMAIN last.pre.filters
     /\ Sent.emsg \notin {EMsg_ClientLogOnResponse, EMsg_Multi}) =>
        \E i \in DOMAIN rest_rx :
            rest_rx[i] = Ok([emsg |-> Sent.emsg, body |-> EncodeBody(Sent)])

\* The last step handled a decoded top-level logon response that met no
\* entry of the table.
LogonOutsideCorrelation ==
    /\ Handled
    /\ WellFormed(Sent)
    /\ Sent.emsg = EMsg_ClientLogOnResponse
    /\ ~Awaited(Sent, last.pre.filters)

\* C5: once a logon response was handled outside correlation the loop does
\* not go back to source.next(): no later frame is received.
C5_LogonResponseEndsLoop ==
    [][LogonOutsideCorrelation => loop' # "next"]_vars

\* C6: a top-level frame that fails to decode changes nothing (table,
\* channels, session id) and does not end the loop, which goes on to the
\* next message: the frames around it are handled as if it were not there.
C6_MalformedFrameDropped ==
    (Handled /\ ~WellFormed(Sent)) =>
        /\ ~last.res.ok
        /\ last.arm = "error"
        /\ last.log = << >>
        /\ job_id_filters = last.pre.filters
        /\ sinks = last.pre.sinks
        /\ client_sessionid = last.pre.sid
        /\ loop = "log"
        /\ ENABLED LogResult

\* A frame with an unknown result code, a job id in the table and a new
\* session id was handled.
C6_Witness ==
    /\ Handled
    /\ last.frame = "UnknownEResult"
    /\ JobA \in DOMAIN job_id_filters
    /\ client_sessionid # 7
    /\ last.res.err.kind = "UnknownEResult"

\* The last of the non-zero ids, or initial when there is none.
RECURSIVE LastNonZero(_, _)
LastNonZero(ids, initial) ==
    IF ids = << >> THEN initial
    ELSE IF ids[Len(ids)] # 0 THEN ids[Len(ids)]
    ELSE LastNonZero(SubSeq(ids, 1, Len(ids) - 1), initial)

SessionIds(ds) == [k \in DOMAIN ds |-> ds[k].sid]

\* C7: after a step of the loop the stored session id is the session id of
\* the last decoded frame (top-level or sub-frame) that carried a non-zero
\* one, or the value the step started from; a zero never overwrites.
C7_SessionIdLastNonZero ==
    /\ Handled =>
           client_sessionid =
               LastNonZero(SessionIds(Decoded(Sent, last.pre.filters)),
                           last.pre.sid)
    /\ last.op \in {"non_binary", "stream_error", "stream_end"} =>
           client_sessionid = last.pre.sid

\* From 0, the session ids 0, 5, 0, 7 (after the 0 of their container) end
\* at 7.
C7_Witness ==
    /\ Handled
    /\ last.frame = "Multi_Sids"
    /\ last.pre.sid = 0
    /\ SessionIds(Decoded(Sent, last.pre.filters)) = <<0, 0, 5, 0, 7>>
    /\ client_sessionid = 7

\* The trailing bytes of the container start with a length that exceeds
\* what follows it.
TrailOverruns(d) ==
    /\ Len(d.multi.trail) >= 4
    /\ LEValue(SubSeq(d.multi.trail, 1, 4)) > Len(d.multi.trail) - 4

\* The number of the sub-frame at which the expansion of container d
\* fails, 0 when it does not fail.
FailsAt(d) ==
    LET n == Len(GoodPrefix(d.multi.subs)) IN
    IF n < Len(d.multi.subs) \/ TrailOverruns(d) THEN n + 1 ELSE 0

\* The log line of a decoded frame agrees with the frame sent.
LogAgrees(entry, d) ==
    /\ entry.emsg = d.emsg
    /\ entry.jobid_target = d.job
    /\ entry.client_sessionid = d.sid
    /\ entry.eresult = d.eresult

\* C8: when the expansion of a container fails at sub-frame k, the
\* sub-frames before k were processed in payload order (replies delivered,
\* session ids applied), the sub-frames after k were not (their entries are
\* still in the table), and the loop goes on.
C8_ContainerFailsAtK ==
    (Handled /\ Expanded(Sent, last.pre.filters) /\ FailsAt(Sent) > 0) =>
        LET k  == FailsAt(Sent)
            ds == Decoded(Sent, last.pre.filters)
        IN
        /\ ~last.res.ok
        /\ last.arm = "Multi"
        /\ Len(last.log) = k
        /\ \A i \in 1..k : LogAgrees(last.log[i], ds[i])
        /\ \A i \in 1..k :
              Meets(ds, i, last.pre.filters) =>
                  LET tx == last.pre.filters[ds[i].job] IN
                  /\ sinks[tx].sends = 1
                  /\ sinks[tx].rx = "waiting" =>
                         sinks[tx].value = Some(Resolution(ds[i]))
        /\ client_sessionid = LastNonZero(SessionIds(ds), last.pre.sid)
        /\ \A j \in DOMAIN last.pre.filters :
              (\A i \in 1..k : ds[i].job # j) =>
                  /\ j \in DOMAIN job_id_filters
                  /\ job_id_filters[j] = last.pre.filters[j]
                  /\ sinks[job_id_filters[j]] = last.pre.sinks[job_id_filters[j]]
        /\ loop = "log"
        /\ ENABLED LogResult

\* The container whose second sub-frame fails to decode, both job ids
\* registered: the first sub-frame was delivered, the third was not.
C8_Witness ==
    /\ Handled
    /\ last.frame = "Multi_BadSub"
    /\ {JobA, JobB} \subseteq DOMAIN last.pre.filters
    /\ sinks[last.pre.filters[JobA]].sends = 1
    /\ JobB \in DOMAIN job_id_filters
    /\ sinks[job_id_filters[JobB]].sends = 0
    /\ ~last.res.ok

\* C9: a complete frame whose message type has the flag bit unset fails
\* with UnexpectedNonProtobufMessage carrying the message type as it was on
\* the wire, whatever its header, type and result code.
C9_NonProtobufRejected ==
    (Handled /\ ~Sent.flag /\ Sent.cut < 0) =>
        /\ ~last.res.ok
        /\ last.res.err = [kind |-> "UnexpectedNonProtobufMessage",
                           val |-> Sent.emsg]

\* An unflagged frame with an unknown type and a header that is not a
\* protocol buffer.
C9_Witness ==
    /\ Handled
    /\ last.frame = "NoFlagJunk"
    /\ last.res.err = [kind |-> "UnexpectedNonProtobufMessage",
                       val |-> UnknownEMsg]

\* The sink registered last under job id j; 0 when there is none.
Latest(ss, j) ==
    LET is == {i \in DOMAIN ss : ss[i].job = j} IN
    IF is = {} THEN 0 ELSE CHOOSE i \in is : \A i2 \in is : i2 <= i

\* C10: the table holds, for a job id, the sink registered last under it;
\* a reply is sent to that sink, and a sink registered earlier under the
\* same id and not yet sent to is out of the table and never gets a value.
C10_LastRegistrationWins ==
    /\ \A j \in DOMAIN job_id_filters :
          job_id_filters[j] = Latest(sinks, j)
    /\ Handled =>
          \A k \in DOMAIN last.log :
              last.log[k].tx # 0 =>
                  last.log[k].tx =
                      Latest(last.pre.sinks, last.log[k].jobid_target)
    /\ \A i \in DOMAIN sinks :
          (i < Latest(sinks, sinks[i].job) /\ sinks[i].sends = 0) =>
              /\ ~Pending(i)
              /\ ~sinks[i].value.some

\* Job id 42 registered twice, then its reply: the second receiver has the
\* value, the first has none.
C10_Witness ==
    /\ Handled
    /\ Len(sinks) = 2
    /\ sinks[1].job = JobA
    /\ sinks[2].job = JobA
    /\ last.frame = "ReplyA_Ok"
    /\ last.log[1].tx = 2
    /\ sinks[2].value.some
    /\ sinks[1].sends = 0
    /\ ~sinks[1].value.some

\* A sub-frame taken the way the read loop takes a top-level frame, a
\* container apart: through handle_ws_message, or through check_ws_message
\* alone when it is a container.
AsTopLevel(st, d) ==
    IF WellFormed(d) /\ d.emsg = EMsg_Multi
    THEN LET c == check_ws_message(st, EncodeFrame(d)) IN
         [st |-> c.st, res |-> Ok(Unit)]
    ELSE LET h == handle_ws_message(st, EncodeFrame(d)) IN
         [st |-> h.st, res |-> h.res]

\* The sub-frames taken one after the other, up to the first error.
RECURSIVE EachAsTopLevel(_, _)
EachAsTopLevel(st, subs) ==
    IF subs = << >> THEN [st |-> st, res |-> Ok(Unit)]
    ELSE LET r == AsTopLevel(st, Head(subs)) IN
         IF ~r.res.ok THEN r ELSE EachAsTopLevel(r.st, Tail(subs))

\* C11: the expansion of a container (nothing after its last sub-frame)
\* ends with the result and in the state that taking each sub-frame as a
\* top-level frame gives (decode, session id, correlation, dispatch with the
\* logon-response signal), a sub-frame that is a container not being
\* expanded.
C11_SubFramesAsTopLevel ==
    (Handled /\ Expanded(Sent, last.pre.filters) /\ Sent.multi.trail = << >>) =>
        LET ref == EachAsTopLevel(
                       [filters |-> last.pre.filters,
                        sinks   |-> last.pre.sinks,
                        sid     |-> StoreSessionId(last.pre.sid, Sent.sid),
                        log     |-> << >>],
                       Sent.multi.subs)
        IN  /\ last.res = ref.res
            /\ job_id_filters = ref.st.filters
            /\ sinks = ref.st.sinks
            /\ client_sessionid = ref.st.sid

\* C12: a container whose payload ends with 1 to 3 bytes after its last
\* sub-frame fails with an error, the sub-frames before them having been
\* processed.
C12_ShortPrefixFails ==
    (/\ Handled
     /\ Expanded(Sent, last.pre.filters)
     /\ Len(Sent.multi.trail) \in 1..3
     /\ GoodPrefix(Sent.multi.subs) = Sent.multi.subs) =>
        /\ ~last.res.ok
        /\ Len(last.log) = 1 + Len(Sent.multi.subs)

\* C13: a step takes the entry of job id j out of the table, or changes
\* it, only by a new registration under j or by handling a frame in which a
\* decoded frame carries job id j (not 0); dropping a receiver, frames with
\* other job ids or job id 0, frames that fail to decode, messages that are
\* not binary and stream errors leave it.
C13_EntryLeavesOnlyOnReply ==
    [][\A j \in DOMAIN job_id_filters :
          \/ /\ j \in DOMAIN job_id_filters'
             /\ job_id_filters'[j] = job_id_filters[j]
          \/ /\ Len(sinks') = Len(sinks) + 1
             /\ sinks'[Len(sinks')].job = j
             /\ j \in DOMAIN job_id_filters'
             /\ job_id_filters'[j] = Len(sinks')
          \/ /\ j # 0
             /\ loop = "handle"
             /\ last'.op = "handle"
             /\ \E k \in DOMAIN Decoded(Frame(item), job_id_filters) :
                   Decoded(Frame(item), job_id_filters)[k].job = j
      ]_vars

\* A frame carrying job id 42 that fails to decode was handled, the entry
\* for 42 is in the table and its receiver was dropped.
C13_Witness ==
    /\ Handled
    /\ last.frame = "UnknownEMsg"
    /\ JobA \in DOMAIN job_id_filters
    /\ sinks[job_id_filters[JobA]].rx = "dropped"
    /\ job_id_filters = last.pre.filters

\* C14: a decoded frame that meets an entry whose receiver was dropped takes
\* the entry out of the table and delivers nothing; handling a top-level
\* frame of that kind returns Ok(()), without dispatch and with nothing on
\* the unsolicited receiver, and the loop goes on.
C14_DroppedReceiverSwallowed ==
    Handled =>
        LET ds == Decoded(Sent, last.pre.filters) IN
        /\ \A k \in DOMAIN ds :
              (/\ Meets(ds, k, last.pre.filters)
               /\ last.pre.sinks[last.pre.filters[ds[k].job]].rx = "dropped") =>
                  LET tx == last.pre.filters[ds[k].job] IN
                  /\ ds[k].job \notin DOMAIN job_id_filters
                  /\ last.log[k].tx = tx
                  /\ sinks[tx].sends = 1
                  /\ ~sinks[tx].value.some
                  /\ (k = 1 \/ FailsAt(Sent) = 0) => last.res = Ok(Unit)
                  /\ k = 1 => last.arm = "reply"
        /\ rest_rx = << >>
        /\ loop = "log"
        /\ ENABLED LogResult

\* The reply for job id 42 was handled after its receiver was dropped.
C14_Witness ==
    /\ Handled
    /\ last.frame = "ReplyA_Fail"
    /\ JobA \in DOMAIN last.pre.filters
    /\ last.pre.sinks[last.pre.filters[JobA]].rx = "dropped"
    /\ last.res = Ok(Unit)
    /\ JobA \notin DOMAIN job_id_filters

\* C15: an error item of the stream changes neither the table, nor the
\* channels, nor the session id, and leaves the loop at source.next(),
\* where the next frame is received; the task ends only when the stream
\* ends.
C15_StreamErrorHarmless ==
    /\ [](last.op = "stream_error" =>
              /\ loop = "next"
              /\ \A name \in FrameNames : ENABLED ReceiveBinary(name))
    /\ [][/\ (last'.op = "stream_error") =>
                  (/\ job_id_filters' = job_id_filters
                   /\ sinks' = sinks
                   /\ client_sessionid' = client_sessionid
                   /\ loop' = loop)
          /\ (loop # "stopped" /\ loop' = "stopped") =>
                  (last'.op = "stream_end")
         ]_vars

\* A stream error was read while a request was pending.
C15_Witness ==
    /\ last.op = "stream_error"
    /\ \E i \in DOMAIN sinks :
          /\ Pending(i)
          /\ sinks[i].rx = "waiting"
          /\ ~sinks[i].value.some
    /\ job_id_filters = last.pre.filters

\* C16: once the task has ended it stays ended, on_job_id still registers
\* (up to the number of registrations of a run) and puts its sender in the
\* table, and no channel, old or new, is sent to any more.
C16_NothingAfterStop ==
    /\ []((loop = "stopped" /\ Len(sinks) < MaxSinks) =>
              \A j \in JobIds : ENABLED on_job_id(j))
    /\ [][loop = "stopped" =>
              (/\ loop' = "stopped"
               /\ \A i \in DOMAIN sinks :
                     /\ sinks'[i].value = sinks[i].value
                     /\ sinks'[i].sends = sinks[i].sends
               /\ (Len(sinks') > Len(sinks)) =>
                     (LET n == Len(sinks') IN
                      /\ n = Len(sinks) + 1
                      /\ sinks'[n].job \in DOMAIN job_id_filters'
                      /\ job_id_filters'[sinks'[n].job] = n
                      /\ sinks'[n].sends = 0
                      /\ ~sinks'[n].value.some))
         ]_vars

\* The task has ended and a request was registered after that: every
\* receiver is waiting, none was sent to.
C16_Witness ==
    /\ loop = "stopped"
    /\ last = Idle
    /\ Len(sinks) >= 1
    /\ \A i \in DOMAIN sinks :
          /\ sinks[i].rx = "waiting"
          /\ sinks[i].sends = 0
    /\ Pending(Len(sinks))

\* C17: the message in hand is handled before another is received (the
\* next step of the task handles it, whatever the callers do meanwhile), a
\* channel is sent to only while a message is handled, the decoded frames
\* of a message are processed in payload order (the k-th log line and the
\* k-th delivery are those of the k-th frame), and no channel is sent to
\* twice.
C17_ArrivalOrder ==
    /\ [](/\ \A i \in DOMAIN sinks : sinks[i].sends <= 1
          /\ Handled =>
                LET ds == Decoded(Sent, last.pre.filters) IN
                /\ Len(last.log) = Len(ds)
                /\ \A k \in DOMAIN ds :
                      /\ LogAgrees(last.log[k], ds[k])
                      /\ last.log[k].tx =
                             IF Meets(ds, k, last.pre.filters)
                             THEN last.pre.filters[ds[k].job] ELSE 0)
    /\ [][/\ (loop = "handle" /\ (loop' # loop \/ item' # item)) =>
                  (last'.op = "handle" /\ last'.frame = item)
          /\ (\E i \in DOMAIN sinks : sinks'[i].sends # sinks[i].sends) =>
                  (loop = "handle")
         ]_vars

\* The container with the reply for job id 42 before the reply for job id
\* 7, both registered: the second log line is the delivery to the sink of
\* 42, the third the delivery to the sink of 7.
C17_Witness ==
    /\ Handled
    /\ last.frame = "Multi_AB"
    /\ {JobA, JobB} \subseteq DOMAIN last.pre.filters
    /\ Len(last.log) = 3
    /\ last.log[2].tx = last.pre.filters[JobA]
    /\ last.log[3].tx = last.pre.filters[JobB]
    /\ sinks[last.pre.filters[JobA]].sends = 1
    /\ sinks[last.pre.filters[JobB]].sends = 1

\* C18: a frame that fails to decode leaves the session id and the table
\* as they were, whatever its header carries: a top-level frame leaves them
\* as they were before the step, a sub-frame leaves the session id at that
\* of the frames decoded before it and leaves the entry of its job id.
C18_FailedDecodeNoEffect ==
    Handled =>
        /\ ~WellFormed(Sent) =>
              /\ job_id_filters = last.pre.filters
              /\ client_sessionid = last.pre.sid
        /\ (/\ Expanded(Sent, last.pre.filters)
            /\ Len(GoodPrefix(Sent.multi.subs)) < Len(Sent.multi.subs)) =>
              LET ds  == Decoded(Sent, last.pre.filters)
                  bad == Sent.multi.subs[Len(ds)]
              IN
              /\ client_sessionid = LastNonZero(SessionIds(ds), last.pre.sid)
              /\ (/\ bad.job \in DOMAIN last.pre.filters
                  /\ \A i \in DOMAIN ds : ds[i].job # bad.job) =>
                    /\ bad.job \in DOMAIN job_id_filters
                    /\ job_id_filters[bad.job] = last.pre.filters[bad.job]
                    /\ sinks[job_id_filters[bad.job]].sends = 0

\* The container whose first sub-frame has an unknown result code, session
\* id 7 and job id 42, with 42 registered and another session id stored.
C18_Witness ==
    /\ Handled
    /\ last.frame = "Multi_BadFirst"
    /\ JobA \in DOMAIN last.pre.filters
    /\ last.pre.sid # 7
    /\ client_sessionid = last.pre.sid
    /\ JobA \in DOMAIN job_id_filters
    /\ last.res.err.kind = "UnknownEResult"

\* C19: nothing is kept for a later registration.  A sender that is in the
\* table was never sent to and its receiver has no value, whatever frames
\* were handled before it was registered; and a decoded frame with a job id
\* that has no entry when it is handled is sent to no channel and, at top
\* level, goes to the dispatch like any frame that is no reply.
C19_NoBuffering ==
    /\ \A i \in DOMAIN sinks :
          Pending(i) => (sinks[i].sends = 0 /\ ~sinks[i].value.some)
    /\ Handled =>
          LET ds == Decoded(Sent, last.pre.filters) IN
          /\ \A k \in DOMAIN ds :
                ~Meets(ds, k, last.pre.filters) => last.log[k].tx = 0
          /\ (WellFormed(Sent) /\ ~Awaited(Sent, last.pre.filters)) =>
                /\ last.arm \in {"ClientLogOnResponse", "Multi", "unexpected"}
                /\ Sent.emsg # EMsg_Multi =>
                      /\ sinks = last.pre.sinks
                      /\ job_id_filters = last.pre.filters

\* The reply for job id 42 was handled with no entry for 42, and 42 can
\* still be registered.
C19_Witness ==
    /\ Handled
    /\ last.frame = "ReplyA_Ok"
    /\ JobA \notin DOMAIN last.pre.filters
    /\ last.arm = "unexpected"
    /\ ENABLED on_job_id(JobA)

\* C20: a frame with job id 0 removes nothing from the table and is sent
\* to no channel: a channel registered under job id 0 is never sent to and,
\* once 0 is registered, the table holds the entry of its latest
\* registration.
C20_JobIdZeroNeverCorrelated ==
    /\ \A i \in DOMAIN sinks :
          sinks[i].job = 0 => (sinks[i].sends = 0 /\ ~sinks[i].value.some)
    /\ (\E i \in DOMAIN sinks : sinks[i].job = 0) =>
          /\ 0 \in DOMAIN job_id_filters
          /\ job_id_filters[0] = Latest(sinks, 0)
    /\ Handled =>
          \A k \in DOMAIN last.log :
              last.log[k].jobid_target = 0 => last.log[k].tx = 0

\* A frame with job id 0 was handled while job id 0 was registered.
C20_Witness ==
    /\ Handled
    /\ last.frame = "Push"
    /\ 0 \in DOMAIN last.pre.filters
    /\ 0 \in DOMAIN job_id_filters
    /\ sinks[job_id_filters[0]].sends = 0
    /\ last.arm = "unexpected"

====
